---- MODULE Spec2Model ----
(***************************************************************************)
(* Itinerary synthesis of PublicTransportDashboard (src/app.py):           *)
(* get_path (hop selection, scoring, best-of-K ranking),                   *)
(* build_legs_from_hops (two-pass leg merging), add_walk_leg_helper and    *)
(* find_nearest_stop.                                                      *)
(*                                                                         *)
(* Encodings.                                                              *)
(*  - A Python str is a sequence of one-character strings, so that         *)
(*    upper(), startswith(), isdigit(), int() and "in" are computed.       *)
(*    Python None in a route position is the one-element sequence NONE.    *)
(*  - A coordinate pair (lat, lon) is a position in metres on a line;      *)
(*    geodesic(p, q).meters is |p.pos - q.pos|; a stop whose coordinates   *)
(*    are missing has pos = BadPos and makes geodesic raise.               *)
(*  - WALKING_FACTOR = 0.2 is the fraction WalkNum / WalkDen; path_score   *)
(*    and best_score are kept as numerators over WalkDen (exact           *)
(*    arithmetic; float rounding is not modelled).                         *)
(*  - float('inf') is Inf.                                                 *)
(***************************************************************************)
EXTENDS Integers, Sequences, FiniteSets, TLC

\* ------------------------------------------------------------------ bounds
MaxCands == 3
MaxLegHops == 5
MaxStops == 3
MaxHops == 3

\* --------------------------------------------------------- program constants
BOARDING_PENALTY == 0
TRANSFER_PENALTY == 600
WalkNum == 1
WalkDen == 5
MissingWeightKey == 9999
GeoFailDist == 9999
MergeWalkLimit == 300
SkipWalkLimit == 5
TramLimit == 40
SecondsPerMinute == 60

\* Python None as a weight, float('inf') as a score, missing coordinates.
NoWeight == -1
Inf == -1
BadPos == -1

\* ------------------------------------------------------------ Python strings
NONE == <<"None">>
START == <<"S", "T", "A", "R", "T">>
WalkName == <<"W", "a", "l", "k">>
R12 == <<"1", "2">>
RU6 == <<"U", "6">>
EMPTY == << >>

Digits == {"0", "1", "2", "3", "4", "5", "6", "7", "8", "9"}

DigitVal(c) ==
    CASE c = "0" -> 0 [] c = "1" -> 1 [] c = "2" -> 2 [] c = "3" -> 3
      [] c = "4" -> 4 [] c = "5" -> 5 [] c = "6" -> 6 [] c = "7" -> 7
      [] c = "8" -> 8 [] c = "9" -> 9

UpperChar(c) ==
    CASE c = "a" -> "A" [] c = "k" -> "K" [] c = "l" -> "L" [] c = "m" -> "M"
      [] c = "n" -> "N" [] c = "o" -> "O" [] c = "r" -> "R" [] c = "s" -> "S"
      [] c = "t" -> "T" [] c = "u" -> "U" [] c = "e" -> "E"
      [] OTHER -> c

Upper(s) == [i \in 1..Len(s) |-> UpperChar(s[i])]

\* str(x): None prints as "None".
Str(r) == IF r = NONE THEN <<"N", "o", "n", "e">> ELSE r

\* bool(x) of a route value: None and "" are falsy.
Truthy(r) == r # NONE /\ r # <<>>

StartsWith(s, c) == Len(s) >= 1 /\ s[1] = c

Contains(s, t) ==
    \E k \in 0..(Len(s) - Len(t)) : \A j \in 1..Len(t) : s[k + j] = t[j]

IsDigit(s) == Len(s) >= 1 /\ \A i \in 1..Len(s) : s[i] \in Digits

RECURSIVE IntOf(_)
IntOf(s) ==
    IF s = <<>> THEN 0
    ELSE 10 * IntOf(SubSeq(s, 1, Len(s) - 1)) + DigitVal(s[Len(s)])

\* ------------------------------------------------------------------ geodesic
Abs(x) == IF x < 0 THEN 0 - x ELSE x

GeodesicRaises(p, q) == p.pos = BadPos \/ q.pos = BadPos

GeodesicMeters(p, q) == Abs(p.pos - q.pos)

Last(s) == s[Len(s)]

Tail1(s) == SubSeq(s, 2, Len(s))

\* ------------------------------------------------------- find_nearest_stop
\* A point is [id, pos]; a catalog stop is [stop_id, pos].
NoStop == [stop_id |-> "None", pos |-> BadPos, distance |-> Inf]


\* Mutation of NearestStep: <= instead of <.
NearestStepLastTie(st, stop, qpos) ==
    IF stop.pos = BadPos THEN st
    ELSE LET dist == Abs(qpos - stop.pos) IN
         IF st.closest_distance = Inf \/ dist <= st.closest_distance
         THEN [closest |-> [stop_id |-> stop.stop_id, pos |-> stop.pos,
                            distance |-> dist],
               closest_distance |-> dist]
         ELSE st

\* One iteration of the scan: st = [closest, closest_distance].
NearestStep(st, stop, qpos) ==
    IF stop.pos = BadPos THEN st
    ELSE LET dist == Abs(qpos - stop.pos) IN
         IF st.closest_distance = Inf \/ dist < st.closest_distance
         THEN [closest |-> [stop_id |-> stop.stop_id, pos |-> stop.pos,
                            distance |-> dist],
               closest_distance |-> dist]
         ELSE st

RECURSIVE NearestScan(_, _, _)
NearestScan(st, stops, qpos) ==
    IF stops = <<>> THEN st
    ELSE NearestScan(NearestStep(st, Head(stops), qpos), Tail(stops), qpos)

find_nearest_stop(stops, qpos) ==
    NearestScan([closest |-> NoStop, closest_distance |-> Inf], stops, qpos).closest

\* ---------------------------------------------------- build_legs_from_hops
\* A processed hop is [s, e, mode, route, weight]; a leg is [mode, route, points].
TRAM == <<"T", "R", "A", "M">>

NoLeg == [mode |-> "None", route |-> NONE, points |-> <<>>]

NormalizeMode(hop) ==
    IF hop.mode = "WALK" THEN "WALK"
    ELSE IF Truthy(hop.route)
         THEN LET rn == Upper(Str(hop.route)) IN
              IF StartsWith(rn, "U") THEN "U-Bahn"
              ELSE IF StartsWith(rn, "S") THEN "S-Bahn"
              ELSE IF Contains(rn, TRAM) \/ (IsDigit(rn) /\ IntOf(rn) < TramLimit)
                   THEN "Tram"
                   ELSE "Bus"
         ELSE "Bus"

RouteLabel(hop) == IF NormalizeMode(hop) # "WALK" THEN hop.route ELSE WalkName


\* Mutation of ShouldMerge: only walks merge.
ShouldMergeWalksOnly(mode, route_label, current_leg) ==
    mode = "WALK" /\ current_leg.mode = "WALK"

ShouldMerge(mode, route_label, current_leg) ==
    \/ mode = "WALK" /\ current_leg.mode = "WALK"
    \/ mode = current_leg.mode /\ route_label = current_leg.route


\* Mutation of NewLeg: the new leg is not seeded with the boundary point.
NewLegUnseeded(mode, route_label, current_leg, node_data) ==
    [mode |-> mode, route |-> route_label, points |-> <<node_data>>]

\* The leg opened when a hop does not merge into the current leg.
NewLeg(mode, route_label, current_leg, node_data) ==
    [mode |-> mode, route |-> route_label,
     points |-> <<Last(current_leg.points), node_data>>]

\* One iteration of the pass-1 loop: st = [raw_legs, current_leg].
Pass1Step(st, hop) ==
    LET mode == NormalizeMode(hop)
        route_label == RouteLabel(hop)
    IN  IF st.current_leg = NoLeg
        THEN [raw_legs |-> st.raw_legs,
              current_leg |-> [mode |-> mode, route |-> route_label,
                               points |-> <<hop.s, hop.e>>]]
        ELSE IF ShouldMerge(mode, route_label, st.current_leg)
        THEN [raw_legs |-> st.raw_legs,
              current_leg |-> [st.current_leg EXCEPT
                                 !.points = Append(@, hop.e)]]
        ELSE [raw_legs |-> Append(st.raw_legs, st.current_leg),
              current_leg |-> NewLeg(mode, route_label, st.current_leg, hop.e)]

Pass1Close(st) ==
    IF st.current_leg # NoLeg THEN Append(st.raw_legs, st.current_leg)
    ELSE st.raw_legs

RECURSIVE Pass1Fold(_, _)
Pass1Fold(st, hops) ==
    IF hops = <<>> THEN st ELSE Pass1Fold(Pass1Step(st, Head(hops)), Tail(hops))

Pass1(hops) == Pass1Close(Pass1Fold([raw_legs |-> <<>>, current_leg |-> NoLeg], hops))


\* Mutation of WalkLegDist: a failed computation counts as no distance.
WalkLegDistZeroOnFailure(leg) ==
    IF GeodesicRaises(leg.points[1], Last(leg.points)) THEN 0
    ELSE GeodesicMeters(leg.points[1], Last(leg.points))

\* Distance of a walk leg as pass 2 computes it (except: dist = 9999).
WalkLegDist(leg) ==
    IF GeodesicRaises(leg.points[1], Last(leg.points)) THEN GeoFailDist
    ELSE GeodesicMeters(leg.points[1], Last(leg.points))


\* Mutation of ShortEnough: the comparison is inverted.
ShortEnoughInverted(dist) == dist > MergeWalkLimit

ShortEnough(dist) == dist < MergeWalkLimit

\* The pattern check of pass 2 at 0-based index i.
BridgePattern(raw_legs, i) ==
    /\ i + 2 < Len(raw_legs)
    /\ raw_legs[i + 1].mode # "WALK"
    /\ raw_legs[i + 2].mode = "WALK"
    /\ raw_legs[i + 3].mode = raw_legs[i + 1].mode
    /\ raw_legs[i + 3].route = raw_legs[i + 1].route


\* Mutation of Pass2Step: the merged legs' points are joined without slicing.
Pass2StepUnsliced(raw_legs, st) ==
    LET current == raw_legs[st.i + 1] IN
    IF BridgePattern(raw_legs, st.i) /\ ShortEnough(WalkLegDist(raw_legs[st.i + 2]))
    THEN [i |-> st.i + 3,
          smoothed_legs |->
              Append(st.smoothed_legs,
                     [current EXCEPT !.points =
                         current.points \o raw_legs[st.i + 2].points
                                        \o raw_legs[st.i + 3].points])]
    ELSE [i |-> st.i + 1, smoothed_legs |-> Append(st.smoothed_legs, current)]

\* One iteration of the pass-2 loop: st = [i, smoothed_legs], i 0-based.
Pass2Step(raw_legs, st) ==
    LET current == raw_legs[st.i + 1] IN
    IF BridgePattern(raw_legs, st.i) /\ ShortEnough(WalkLegDist(raw_legs[st.i + 2]))
    THEN [i |-> st.i + 3,
          smoothed_legs |->
              Append(st.smoothed_legs,
                     [current EXCEPT !.points =
                         current.points \o Tail1(raw_legs[st.i + 2].points)
                                        \o Tail1(raw_legs[st.i + 3].points)])]
    ELSE [i |-> st.i + 1, smoothed_legs |-> Append(st.smoothed_legs, current)]

RECURSIVE Pass2Fold(_, _)
Pass2Fold(raw_legs, st) ==
    IF st.i < Len(raw_legs) THEN Pass2Fold(raw_legs, Pass2Step(raw_legs, st))
    ELSE st.smoothed_legs

Pass2(raw_legs) == Pass2Fold(raw_legs, [i |-> 0, smoothed_legs |-> <<>>])

build_legs_from_hops(hops) == IF hops = <<>> THEN <<>> ELSE Pass2(Pass1(hops))

\* ---------------------------------------------------- add_walk_leg_helper
\* best_legs = None is the one-element list NoLegs.
NoLegs == <<NoLeg>>


\* Mutation of TooShort: <= instead of <.
TooShortInclusive(dist) == dist <= SkipWalkLimit

TooShort(dist) == dist < SkipWalkLimit

\* The early returns of lines 228-234.
WalkSkipped(walk_points) ==
    \/ walk_points = <<>>
    \/ /\ ~GeodesicRaises(walk_points[1], Last(walk_points))
       /\ TooShort(GeodesicMeters(walk_points[1], Last(walk_points)))

\* [walk_leg] + None raises TypeError.
AddWalkRaises(existing_legs, walk_points) ==
    ~WalkSkipped(walk_points) /\ existing_legs = NoLegs


\* Mutation of add_walk_leg_helper: a walk leg is always inserted.
add_walk_leg_helper_inserting(existing_legs, walk_points, to_start) ==
    IF WalkSkipped(walk_points) THEN existing_legs
    ELSE LET walk_leg == [mode |-> "WALK", route |-> WalkName,
                          points |-> walk_points]
         IN  IF to_start THEN <<walk_leg>> \o existing_legs
             ELSE existing_legs \o <<walk_leg>>

add_walk_leg_helper(existing_legs, walk_points, to_start) ==
    IF WalkSkipped(walk_points) THEN existing_legs
    ELSE LET walk_leg == [mode |-> "WALK", route |-> WalkName,
                          points |-> walk_points]
             n == Len(existing_legs)
         IN  IF existing_legs # <<>> /\ to_start /\ existing_legs[1].mode = "WALK"
             THEN [existing_legs EXCEPT
                     ![1].points = SubSeq(walk_points, 1, 1) \o @]
             ELSE IF existing_legs # <<>> /\ ~to_start
                     /\ existing_legs[n].mode = "WALK"
             THEN [existing_legs EXCEPT
                     ![n].points = @ \o SubSeq(walk_points, Len(walk_points),
                                               Len(walk_points))]
             ELSE IF to_start THEN <<walk_leg>> \o existing_legs
                  ELSE existing_legs \o <<walk_leg>>

\* ------------------------------------------------------------ hop selection
\* An edge option is [type, route, weight]; weight = NoWeight when missing.
FirstMatch(options, label) ==
    IF \E k \in 1..Len(options) : options[k].route = label
    THEN CHOOSE k \in 1..Len(options) :
            /\ options[k].route = label
            /\ \A j \in 1..(k - 1) : options[j].route # label
    ELSE 0

\* key=lambda x: x['weight'] if x['weight'] is not None else 9999
SortKey(opt) == IF opt.weight # NoWeight THEN opt.weight ELSE MissingWeightKey

\* Index of sorted(options, key)[0]: the sort is stable.
Cheapest(options) ==
    CHOOSE k \in 1..Len(options) :
        /\ \A j \in 1..Len(options) : SortKey(options[k]) <= SortKey(options[j])
        /\ \A j \in 1..(k - 1) : SortKey(options[j]) > SortKey(options[k])


\* Mutation of StickIndex: the marker test is inverted.
StickIndexInverted(options, current) ==
    IF current \in {START, WalkName} THEN FirstMatch(options, current) ELSE 0

\* 1. stick to the current route.
StickIndex(options, current) ==
    IF current \notin {START, WalkName} THEN FirstMatch(options, current) ELSE 0

\* 2. currently walking: stick to the last transit route.
ReboardIndex(options, current, last) ==
    IF current = WalkName /\ Truthy(last) THEN FirstMatch(options, last) ELSE 0

\* The selection of lines 356-373: [idx, branch]; idx = 0 is sorted([])[0] raising.
SelectOption(options, current, last) ==
    IF StickIndex(options, current) # 0
    THEN [idx |-> StickIndex(options, current), branch |-> "stick"]
    ELSE IF ReboardIndex(options, current, last) # 0
    THEN [idx |-> ReboardIndex(options, current, last), branch |-> "reboard"]
    ELSE IF options = <<>> THEN [idx |-> 0, branch |-> "fallback"]
    ELSE [idx |-> Cheapest(options), branch |-> "fallback"]


\* Mutation of FallbackPenalty: the first boarding after a start walk is
\* charged as a transfer.
FallbackPenaltyNoFirstBoarding(opt, current, last) ==
    LET is_transit == opt.type # "WALK" IN
    IF current = START /\ is_transit
    THEN [score |-> BOARDING_PENALTY, transfers |-> 0, kind |-> "boarding"]
    ELSE IF current # START /\ is_transit
    THEN IF opt.route = last THEN [score |-> 0, transfers |-> 0, kind |-> "none"]
         ELSE [score |-> TRANSFER_PENALTY, transfers |-> 1, kind |-> "transfer"]
    ELSE [score |-> 0, transfers |-> 0, kind |-> "none"]

\* Mutation of FallbackPenalty: boarding after a walk is never a transfer.
FallbackPenaltyWalkBoards(opt, current, last) ==
    LET is_transit == opt.type # "WALK" IN
    IF current \in {START, WalkName} /\ is_transit
    THEN [score |-> BOARDING_PENALTY, transfers |-> 0, kind |-> "boarding"]
    ELSE IF current # START /\ is_transit
    THEN IF opt.route = last THEN [score |-> 0, transfers |-> 0, kind |-> "none"]
         ELSE IF last = NONE THEN [score |-> BOARDING_PENALTY, transfers |-> 0, kind |-> "boarding"]
         ELSE [score |-> TRANSFER_PENALTY, transfers |-> 1, kind |-> "transfer"]
    ELSE [score |-> 0, transfers |-> 0, kind |-> "none"]


\* Mutation of FallbackPenalty: getting on a new line is charged as a boarding.
FallbackPenaltyBoardsNewLine(opt, current, last) ==
    LET is_transit == opt.type # "WALK" IN
    IF current = START /\ is_transit
    THEN [score |-> BOARDING_PENALTY, transfers |-> 0, kind |-> "boarding"]
    ELSE IF current # START /\ is_transit
    THEN IF opt.route = last THEN [score |-> 0, transfers |-> 0, kind |-> "none"]
         ELSE [score |-> BOARDING_PENALTY, transfers |-> 0, kind |-> "boarding"]
    ELSE [score |-> 0, transfers |-> 0, kind |-> "none"]

\* The scoring of lines 375-398 (fallback branch only): [score, transfers,
\* kind], kind naming the penalty the hop was charged.
FallbackPenalty(opt, current, last) ==
    LET is_transit == opt.type # "WALK" IN
    IF current = START /\ is_transit
    THEN [score |-> BOARDING_PENALTY, transfers |-> 0, kind |-> "boarding"]
    ELSE IF current # START /\ is_transit
    THEN IF opt.route = last THEN [score |-> 0, transfers |-> 0, kind |-> "none"]
         ELSE IF last = NONE THEN [score |-> BOARDING_PENALTY, transfers |-> 0, kind |-> "boarding"]
         ELSE [score |-> TRANSFER_PENALTY, transfers |-> 1, kind |-> "transfer"]
    ELSE [score |-> 0, transfers |-> 0, kind |-> "none"]

Penalty(sel, opt, current, last) ==
    IF sel.branch = "fallback" THEN FallbackPenalty(opt, current, last)
    ELSE [score |-> 0, transfers |-> 0, kind |-> "none"]

\* raw_weight = selected_option['weight'] or 0
RawWeight(opt) == IF opt.weight = NoWeight THEN 0 ELSE opt.weight


\* Mutation of WeightCost: the walking factor is not applied.
WeightCostNoFactor(opt) == RawWeight(opt) * WalkDen

\* Lines 411-414, as a numerator over WalkDen.
WeightCost(opt) ==
    IF opt.type = "WALK" THEN RawWeight(opt) * WalkNum
    ELSE RawWeight(opt) * WalkDen

NextCurrent(opt) == IF opt.type # "WALK" THEN opt.route ELSE WalkName


\* Mutation of NextLast: a walk clears the last transit route.
NextLastCleared(opt, last) == IF opt.type # "WALK" THEN opt.route ELSE NONE

NextLast(opt, last) == IF opt.type # "WALK" THEN opt.route ELSE last

ProcessedHop(hop, opt) ==
    [s |-> hop.s, e |-> hop.e, mode |-> opt.type, route |-> opt.route,
     weight |-> RawWeight(opt)]

\* path_score < best_score, with float('inf').
ScoreLess(a, b) == a # Inf /\ (b = Inf \/ a < b)

\* ------------------------------------------------------------- environment
\* The stop network the graph engine and the stop API answer from.
\* Stops A, B, C, D lie on a line; B and C are 40 m apart.
NodePos(id) ==
    CASE id = "A" -> 100 [] id = "B" -> 1100 [] id = "C" -> 1140
      [] id = "D" -> 2140 [] OTHER -> BadPos

Point(id) == [id |-> id, pos |-> NodePos(id)]

\* The cached stop list; stop "X" has no coordinates.
Catalog ==
    << [stop_id |-> "B", pos |-> NodePos("B")],
       [stop_id |-> "X", pos |-> NodePos("X")],
       [stop_id |-> "A", pos |-> NodePos("A")],
       [stop_id |-> "D", pos |-> NodePos("D")],
       [stop_id |-> "C", pos |-> NodePos("C")] >>

Opt(t, r, w) == [type |-> t, route |-> r, weight |-> w]

\* The option lists an edge of the graph may carry.
OptionPool ==
    { << Opt("TRANSIT_ROUTE", R12, 300), Opt("TRANSIT_ROUTE", RU6, 100) >>,
      << Opt("TRANSIT_ROUTE", R12, 250) >>,
      << Opt("WALK", NONE, 50) >>,
      << Opt("TRANSIT_ROUTE", RU6, NoWeight), Opt("TRANSIT_ROUTE", R12, 700) >>,
      << >> }

\* Candidate node sequences the k-shortest-paths query can yield.
PathSet == { <<"A", "D">>, <<"A", "B", "D">>, <<"A", "B", "C", "D">> }

PathsBetween(s, t) == { p \in PathSet : p[1] = s /\ p[Len(p)] = t }

SeqsUpTo(S, n) == UNION { [1..k -> S] : k \in 0..n }

EdgesOf(path) == { <<path[k], path[k + 1]>> : k \in 1..(Len(path) - 1) }

AllEdges == UNION { EdgesOf(p) : p \in PathSet }

\* Request arguments: absent ids are "", absent coordinates are BadPos.
Requests ==
    { [start |-> "A", end |-> "D", start_pos |-> BadPos, end_pos |-> BadPos],
      [start |-> "", end |-> "D", start_pos |-> BadPos, end_pos |-> BadPos],
      [start |-> "", end |-> "", start_pos |-> NodePos("A") - 80,
        end_pos |-> NodePos("D") + 5],
      [start |-> "", end |-> "D", start_pos |-> NodePos("A") - 3,
        end_pos |-> BadPos] }

VARIABLES
    pc,                 \* position in get_path / build_legs_from_hops
    request,            \* request.args
    all_stops,          \* the cached stop list
    start_id, end_id, start_point, end_point, nearest_start, nearest_end,
    graph,              \* edge -> option list, as far as the engine has answered
    candidates, path_idx, hops, hop_i,
    current_route_name, last_transit_route,
    path_score, real_transfers, pure_travel_time, processed_hops,
    best_legs, best_score, best_stats, best_path_idx,
    raw_legs, current_leg, leg_i, smoothed_legs,
    response,
    merges,             \* history: merges performed in pass 1
    events,             \* history: which parts of get_path have run
    cand_scores,        \* history: path_score of every evaluated candidate
    cand_hops,          \* history: processed_hops of every evaluated candidate
    cand_transfers,     \* history: real_transfers of every evaluated candidate
    branches,           \* history: the selection branch of every hop scored
    penalties,          \* history: the penalty charged to every hop scored
    stop_i, closest, closest_distance   \* the scan of find_nearest_stop

reqvars == <<request, all_stops, start_id, end_id, start_point, end_point,
             nearest_start, nearest_end>>
loopvars == <<candidates, path_idx, hops, hop_i>>
statevars == <<current_route_name, last_transit_route, path_score,
               real_transfers, pure_travel_time, processed_hops>>
bestvars == <<best_legs, best_score, best_stats, best_path_idx>>
legvars == <<raw_legs, current_leg, leg_i, smoothed_legs, merges>>
histvars == <<events, cand_scores, cand_hops, cand_transfers, branches,
              penalties>>
scanvars == <<stop_i, closest, closest_distance>>
vars == <<pc, reqvars, graph, loopvars, statevars, bestvars, legvars,
          response, histvars, scanvars>>

NoPoint == [id |-> "None", pos |-> BadPos]
NoResponse == [status |-> 0, error |-> "", legs |-> NoLegs, debug_score |-> Inf]
NoStats == [time |-> 0, transfers |-> 0, score |-> 0]
Unknown == << Opt("?", NONE, NoWeight) >>

LegIdle ==
    /\ raw_legs = <<>> /\ current_leg = NoLeg /\ leg_i = 0
    /\ smoothed_legs = <<>> /\ merges = 0

\* Lines 101-102: closest = None, closest_distance = float("inf").
ScanIdle == stop_i = 0 /\ closest = NoStop /\ closest_distance = Inf

Init ==
    /\ pc = "request"
    /\ request \in Requests
    /\ all_stops = Catalog
    /\ start_id = "" /\ end_id = ""
    /\ start_point = NoPoint /\ end_point = NoPoint
    /\ nearest_start = NoStop /\ nearest_end = NoStop
    /\ graph = [e \in AllEdges |-> Unknown]
    /\ candidates = <<>> /\ path_idx = 0 /\ hops = <<>> /\ hop_i = 0
    /\ current_route_name = START /\ last_transit_route = NONE
    /\ path_score = 0 /\ real_transfers = 0 /\ pure_travel_time = 0
    /\ processed_hops = <<>>
    /\ best_legs = NoLegs /\ best_score = Inf /\ best_stats = NoStats
    /\ best_path_idx = -1
    /\ LegIdle
    /\ response = NoResponse
    /\ events = {} /\ cand_scores = <<>> /\ cand_hops = <<>>
    /\ cand_transfers = <<>> /\ branches = <<>> /\ penalties = <<>>
    /\ ScanIdle

Respond(status, error, legs, score) ==
    /\ response' = [status |-> status, error |-> error, legs |-> legs,
                    debug_score |-> score]
    /\ pc' = "done"

\* Lines 255-282: argument handling and nearest-stop resolution.
ResolveStart(req) ==
    IF req.start_pos # BadPos
    THEN LET n == find_nearest_stop(all_stops, req.start_pos) IN
         [point |-> [id |-> "Start", pos |-> req.start_pos], nearest |-> n,
          id |-> IF n # NoStop THEN n.stop_id ELSE ""]
    ELSE [point |-> NoPoint, nearest |-> NoStop, id |-> req.start]

ResolveEnd(req) ==
    IF req.end_pos # BadPos
    THEN LET n == find_nearest_stop(all_stops, req.end_pos) IN
         [point |-> [id |-> "Destination", pos |-> req.end_pos], nearest |-> n,
          id |-> IF n # NoStop THEN n.stop_id ELSE ""]
    ELSE [point |-> NoPoint, nearest |-> NoStop, id |-> req.end]

Resolve ==
    /\ pc = "request"
    /\ LET rs == ResolveStart(request)
           re == ResolveEnd(request)
       IN  /\ start_point' = rs.point /\ nearest_start' = rs.nearest
           /\ start_id' = rs.id
           /\ end_point' = re.point /\ nearest_end' = re.nearest
           /\ end_id' = re.id
           /\ IF rs.id = "" \/ re.id = ""
              THEN Respond(400, "Start and End required", NoLegs, Inf)
              ELSE pc' = "query" /\ UNCHANGED response
    /\ UNCHANGED <<request, all_stops, graph, loopvars, statevars, bestvars,
                   legvars, histvars, scanvars>>


\* Mutation of NoCandidates: "is None" instead of "not".
NoCandidatesIsNone(c) == FALSE

NoCandidates(c) == c = <<>>

\* Lines 329-333: the k-shortest-paths query and the empty check.
QueryCandidates ==
    /\ pc = "query"
    /\ \E c \in SeqsUpTo(PathsBetween(start_id, end_id), MaxCands) :
          /\ candidates' = c
          /\ IF NoCandidates(c)
             THEN Respond(404, "No path found", NoLegs, Inf)
             ELSE /\ pc' = (IF c = <<>> THEN "stitch" ELSE "fetch")
                  /\ UNCHANGED response
    /\ path_idx' = 0
    /\ UNCHANGED <<reqvars, graph, hops, hop_i, statevars, bestvars, legvars,
                   histvars, scanvars>>

HopRows(node_ids, g) ==
    [k \in 1..(Len(node_ids) - 1) |->
        [s |-> Point(node_ids[k]), e |-> Point(node_ids[k + 1]),
         options |-> g[<<node_ids[k], node_ids[k + 1]>>]]]


\* Mutation of FreshLastTransitRoute: the previous candidate's value is kept.
StaleLastTransitRoute == last_transit_route

\* Line 343: last_transit_route = None.
FreshLastTransitRoute == NONE

\* Lines 337-350: the details query of one candidate and the state reset.
FetchHops ==
    /\ pc = "fetch"
    /\ LET node_ids == candidates[path_idx + 1]
           fresh == { e \in EdgesOf(node_ids) : graph[e] = Unknown }
       IN  \E answer \in [fresh -> OptionPool] :
              /\ graph' = [e \in AllEdges |->
                              IF e \in fresh THEN answer[e] ELSE graph[e]]
              /\ hops' = HopRows(node_ids, graph')
    /\ hop_i' = 0
    /\ current_route_name' = START
    /\ last_transit_route' = FreshLastTransitRoute
    /\ path_score' = 0
    /\ processed_hops' = <<>>
    /\ real_transfers' = 0
    /\ pure_travel_time' = 0
    /\ branches' = <<>>
    /\ penalties' = <<>>
    /\ pc' = "hop"
    /\ UNCHANGED <<reqvars, candidates, path_idx, bestvars, legvars, response,
                   events, cand_scores, cand_hops, cand_transfers, scanvars>>

\* Lines 352-422: one iteration of the hop loop.
ScoreHop ==
    /\ pc = "hop"
    /\ hop_i < Len(hops)
    /\ LET hop == hops[hop_i + 1]
           sel == SelectOption(hop.options, current_route_name, last_transit_route)
       IN  /\ sel.idx # 0
           /\ LET opt == hop.options[sel.idx]
                  pen == Penalty(sel, opt, current_route_name, last_transit_route)
              IN  /\ path_score' = path_score + pen.score * WalkDen + WeightCost(opt)
                  /\ real_transfers' = real_transfers + pen.transfers
                  /\ current_route_name' = NextCurrent(opt)
                  /\ last_transit_route' = NextLast(opt, last_transit_route)
                  /\ pure_travel_time' = pure_travel_time + RawWeight(opt)
                  /\ processed_hops' = Append(processed_hops, ProcessedHop(hop, opt))
           /\ branches' = Append(branches, sel.branch)
           /\ penalties' =
                Append(penalties,
                       Penalty(sel, hop.options[sel.idx], current_route_name,
                               last_transit_route).kind)
    /\ hop_i' = hop_i + 1
    /\ events' = events \cup {"score"}
    /\ UNCHANGED <<pc, reqvars, graph, candidates, path_idx, hops, bestvars,
                   legvars, response, cand_scores, cand_hops, cand_transfers,
                   scanvars>>

\* Line 373 on a hop without options: IndexError, caught at line 454.
ScoreHopRaises ==
    /\ pc = "hop"
    /\ hop_i < Len(hops)
    /\ SelectOption(hops[hop_i + 1].options, current_route_name,
                    last_transit_route).idx = 0
    /\ Respond(500, "list index out of range", NoLegs, Inf)
    /\ UNCHANGED <<reqvars, graph, loopvars, statevars, bestvars, legvars,
                   histvars, scanvars>>


\* Mutation of Better: <= instead of <.
BetterOrEqual(score, best) == score # Inf /\ (best = Inf \/ score <= best)

Better(score, best) == ScoreLess(score, best)

\* Lines 424-433: the comparison with the best candidate so far.
RankCandidate ==
    /\ pc = "hop"
    /\ hop_i = Len(hops)
    /\ IF Better(path_score, best_score)
       THEN /\ best_score' = path_score
            /\ best_legs' = build_legs_from_hops(processed_hops)
            /\ best_path_idx' = path_idx
            /\ best_stats' = [time |-> pure_travel_time \div SecondsPerMinute,
                              transfers |-> real_transfers,
                              score |-> path_score \div WalkDen]
            /\ events' = events \cup {"legs"}
       ELSE UNCHANGED <<bestvars, events>>
    /\ cand_scores' = Append(cand_scores, path_score)
    /\ cand_hops' = Append(cand_hops, processed_hops)
    /\ cand_transfers' = Append(cand_transfers, real_transfers)
    /\ IF path_idx + 1 < Len(candidates)
       THEN path_idx' = path_idx + 1 /\ pc' = "fetch"
       ELSE path_idx' = path_idx /\ pc' = "stitch"
    /\ UNCHANGED <<reqvars, graph, candidates, hops, hop_i, statevars, legvars,
                   response, branches, penalties, scanvars>>

\* Lines 442-444 and 447-449: the points handed to add_walk_leg_helper.
StartWalkOf(point, nearest) ==
    IF point # NoPoint /\ nearest # NoStop
    THEN << point, [id |-> nearest.stop_id, pos |-> nearest.pos] >>
    ELSE << >>

EndWalkOf(point, nearest) ==
    IF point # NoPoint /\ nearest # NoStop
    THEN << [id |-> nearest.stop_id, pos |-> nearest.pos], point >>
    ELSE << >>

StartWalk == StartWalkOf(start_point, nearest_start)

EndWalk == EndWalkOf(end_point, nearest_end)

\* Lines 442-452: both walk-stitching calls and the answer.
Stitch ==
    /\ pc = "stitch"
    /\ LET with_start == add_walk_leg_helper(best_legs, StartWalk, TRUE)
           with_end == add_walk_leg_helper(with_start, EndWalk, FALSE)
       IN  IF \/ AddWalkRaises(best_legs, StartWalk)
              \/ AddWalkRaises(with_start, EndWalk)
           THEN /\ Respond(500, "TypeError", NoLegs, Inf)
                /\ UNCHANGED best_legs
           ELSE /\ best_legs' = with_end
                /\ Respond(200, "", with_end, best_score)
    /\ events' = events \cup {"stitch"}
    /\ UNCHANGED <<reqvars, graph, loopvars, statevars, best_score, best_stats,
                   best_path_idx, legvars, cand_scores, cand_hops,
                   cand_transfers, branches, penalties, scanvars>>

Next ==
    \/ Resolve
    \/ QueryCandidates
    \/ FetchHops
    \/ ScoreHop
    \/ ScoreHopRaises
    \/ RankCandidate
    \/ Stitch

Spec == Init /\ [][Next]_vars

\* ------------------------------------------- build_legs_from_hops, stepwise
\* LegSpec applies build_legs_from_hops and the two add_walk_leg_helper calls
\* to any processed hop list; it reads and writes processed_hops, raw_legs,
\* current_leg, leg_i, smoothed_legs, best_legs and the walk inputs.
\* The first stop lies at 1000 m, a transit hop covers 1000 m, and the stop
\* nearest to the end coordinate lies at 9000 m.
LegOrigin == NodePos("A") * 10
TransitLen == LegOrigin
EndStopPos == 9 * LegOrigin

\* Hop shapes: [mode, route, weight, len]; len = BadPos is a destination
\* without coordinates.
Shape(m, r, w, l) == [mode |-> m, route |-> r, weight |-> w, len |-> l]

HopShapes ==
    { Shape("TRANSIT_ROUTE", R12, 300, TransitLen),
      Shape("TRANSIT_ROUTE", RU6, 400, TransitLen),
      Shape("WALK", NONE, 50, 40),
      Shape("WALK", NONE, 60, 260),
      Shape("WALK", NONE, 70, 301),
      Shape("WALK", NONE, 80, BadPos) }

\* A -(Bus "12", 300)-> B -(Walk, 50)-> C -(Bus "12", 200)-> D, B to C 40 m.
ScenarioShapes ==
    << Shape("TRANSIT_ROUTE", R12, 300, TransitLen),
       Shape("WALK", NONE, 50, 40),
       Shape("TRANSIT_ROUTE", R12, 200, TransitLen) >>

PointIds == <<"P0", "P1", "P2", "P3", "P4", "P5", "P6", "P7", "P8">>

RECURSIVE PosAfter(_, _)
PosAfter(shapes, k) ==
    IF k = 0 THEN LegOrigin
    ELSE PosAfter(shapes, k - 1)
         + (IF shapes[k].len = BadPos THEN 0 ELSE shapes[k].len)

PointAt(shapes, k) ==
    [id |-> PointIds[k + 1],
     pos |-> IF k > 0 /\ shapes[k].len = BadPos THEN BadPos
             ELSE PosAfter(shapes, k)]

HopsOf(shapes) ==
    [k \in 1..Len(shapes) |->
        [s |-> PointAt(shapes, k - 1), e |-> PointAt(shapes, k),
         mode |-> shapes[k].mode, route |-> shapes[k].route,
         weight |-> shapes[k].weight]]

LegInputs ==
    { HopsOf(sh) : sh \in SeqsUpTo(HopShapes, MaxLegHops) \cup {ScenarioShapes} }

\* Walk inputs: the distance between the off-network point and its stop.
StartDistances == {4, 5}
EndDistances == {3, 80}

LegInit ==
    /\ pc = "legs"
    /\ processed_hops \in LegInputs
    /\ request = [start |-> "", end |-> "", start_pos |-> BadPos,
                  end_pos |-> BadPos]
    /\ all_stops = Catalog
    /\ start_id = "" /\ end_id = ""
    /\ start_point = NoPoint /\ end_point = NoPoint
    /\ nearest_start = NoStop /\ nearest_end = NoStop
    /\ graph = [e \in AllEdges |-> Unknown]
    /\ candidates = <<>> /\ path_idx = 0 /\ hops = <<>> /\ hop_i = 0
    /\ current_route_name = START /\ last_transit_route = NONE
    /\ path_score = 0 /\ real_transfers = 0 /\ pure_travel_time = 0
    /\ best_legs = NoLegs /\ best_score = Inf /\ best_stats = NoStats
    /\ best_path_idx = -1
    /\ LegIdle
    /\ response = NoResponse
    /\ events = {} /\ cand_scores = <<>> /\ cand_hops = <<>>
    /\ cand_transfers = <<>> /\ branches = <<>> /\ penalties = <<>>
    /\ ScanIdle

LegFrame ==
    UNCHANGED <<request, all_stops, start_id, end_id, graph, loopvars,
                current_route_name, last_transit_route, path_score,
                real_transfers, pure_travel_time, processed_hops, best_score,
                best_stats, best_path_idx, response, histvars, scanvars>>

WalkFrame == UNCHANGED <<start_point, end_point, nearest_start, nearest_end>>

\* Line 128: if not hops: return []
LegsOfNothing ==
    /\ pc = "legs" /\ processed_hops = <<>>
    /\ best_legs' = <<>>
    /\ pc' = "stitch_start"
    /\ UNCHANGED legvars /\ LegFrame /\ WalkFrame

LegsBegin ==
    /\ pc = "legs" /\ processed_hops # <<>>
    /\ pc' = "pass1"
    /\ UNCHANGED <<legvars, best_legs>> /\ LegFrame /\ WalkFrame

\* Lines 134-173: one iteration of the pass-1 loop.
Pass1Hop ==
    /\ pc = "pass1" /\ leg_i < Len(processed_hops)
    /\ LET hop == processed_hops[leg_i + 1]
           st == Pass1Step([raw_legs |-> raw_legs, current_leg |-> current_leg],
                           hop)
       IN  /\ raw_legs' = st.raw_legs
           /\ current_leg' = st.current_leg
           /\ merges' = IF Len(st.raw_legs) = Len(raw_legs) /\ current_leg # NoLeg
                        THEN merges + 1 ELSE merges
    /\ leg_i' = leg_i + 1
    /\ UNCHANGED <<pc, smoothed_legs, best_legs>> /\ LegFrame /\ WalkFrame

\* Line 174.
Pass1End ==
    /\ pc = "pass1" /\ leg_i = Len(processed_hops)
    /\ raw_legs' = Pass1Close([raw_legs |-> raw_legs, current_leg |-> current_leg])
    /\ leg_i' = 0
    /\ pc' = "pass2"
    /\ UNCHANGED <<current_leg, smoothed_legs, merges, best_legs>>
    /\ LegFrame /\ WalkFrame

\* Lines 182-221: one iteration of the pass-2 loop.
Pass2Iter ==
    /\ pc = "pass2" /\ leg_i < Len(raw_legs)
    /\ LET st == Pass2Step(raw_legs, [i |-> leg_i, smoothed_legs |-> smoothed_legs])
       IN  leg_i' = st.i /\ smoothed_legs' = st.smoothed_legs
    /\ UNCHANGED <<pc, raw_legs, current_leg, merges, best_legs>>
    /\ LegFrame /\ WalkFrame

\* Line 223.
Pass2End ==
    /\ pc = "pass2" /\ leg_i >= Len(raw_legs)
    /\ best_legs' = smoothed_legs
    /\ pc' = "stitch_start"
    /\ UNCHANGED legvars /\ LegFrame /\ WalkFrame

\* Line 445, for a start coordinate d metres before the first stop, or none.
LegStitchStart ==
    /\ pc = "stitch_start"
    /\ \/ start_point' = NoPoint /\ nearest_start' = NoStop
       \/ \E d \in StartDistances :
             /\ start_point' = [id |-> "Start", pos |-> LegOrigin - d]
             /\ nearest_start' = [stop_id |-> PointIds[1], pos |-> LegOrigin,
                                  distance |-> d]
    /\ best_legs' = add_walk_leg_helper(best_legs,
                        StartWalkOf(start_point', nearest_start'), TRUE)
    /\ pc' = "stitch_end"
    /\ UNCHANGED <<legvars, end_point, nearest_end>> /\ LegFrame

\* Line 450, for an end coordinate d metres past the last stop, or none.
LegStitchEnd ==
    /\ pc = "stitch_end"
    /\ \/ end_point' = NoPoint /\ nearest_end' = NoStop
       \/ \E d \in EndDistances :
             /\ end_point' = [id |-> "Destination", pos |-> EndStopPos + d]
             /\ nearest_end' = [stop_id |-> "End", pos |-> EndStopPos,
                                distance |-> d]
    /\ best_legs' = add_walk_leg_helper(best_legs,
                        EndWalkOf(end_point', nearest_end'), FALSE)
    /\ pc' = "done"
    /\ UNCHANGED <<legvars, start_point, nearest_start>> /\ LegFrame

LegNext ==
    \/ LegsOfNothing
    \/ LegsBegin
    \/ Pass1Hop
    \/ Pass1End
    \/ Pass2Iter
    \/ Pass2End
    \/ LegStitchStart
    \/ LegStitchEnd

LegSpec == LegInit /\ [][LegNext]_vars

\* ------------------------------------------------ find_nearest_stop, stepwise
\* NearSpec scans a stop catalog for a start coordinate as find_nearest_stop
\* does, one stop per step, and then builds the legs of a hop list; catalogs
\* hold stops without coordinates and hop lists hold walks whose length
\* cannot be computed.
NearStops ==
    { [stop_id |-> "N1", pos |-> LegOrigin - 10],
      [stop_id |-> "N2", pos |-> LegOrigin + 10],
      [stop_id |-> "N3", pos |-> BadPos],
      [stop_id |-> "N4", pos |-> LegOrigin + 200] }

NearQueries == { LegOrigin, LegOrigin + 95 }

NearCatalogs == SeqsUpTo(NearStops, MaxStops)

NearShapes ==
    { << >>,
      << Shape("TRANSIT_ROUTE", R12, 300, TransitLen),
         Shape("WALK", NONE, 80, BadPos),
         Shape("TRANSIT_ROUTE", R12, 300, TransitLen) >>,
      << Shape("TRANSIT_ROUTE", R12, 300, TransitLen),
         Shape("WALK", NONE, 50, 40),
         Shape("TRANSIT_ROUTE", R12, 300, TransitLen) >>,
      << Shape("TRANSIT_ROUTE", R12, 300, TransitLen),
         Shape("WALK", NONE, 80, BadPos),
         Shape("TRANSIT_ROUTE", RU6, 400, TransitLen) >>,
      << Shape("TRANSIT_ROUTE", R12, 300, TransitLen),
         Shape("WALK", NONE, 50, 40),
         Shape("TRANSIT_ROUTE", R12, 300, TransitLen),
         Shape("WALK", NONE, 80, BadPos),
         Shape("TRANSIT_ROUTE", R12, 300, TransitLen) >> }

NearInit ==
    /\ pc = "scan"
    /\ all_stops \in NearCatalogs
    /\ \E q \in NearQueries :
          request = [start |-> "", end |-> "", start_pos |-> q,
                     end_pos |-> BadPos]
    /\ processed_hops \in { HopsOf(sh) : sh \in NearShapes }
    /\ start_id = "" /\ end_id = ""
    /\ start_point = NoPoint /\ end_point = NoPoint
    /\ nearest_start = NoStop /\ nearest_end = NoStop
    /\ graph = [e \in AllEdges |-> Unknown]
    /\ candidates = <<>> /\ path_idx = 0 /\ hops = <<>> /\ hop_i = 0
    /\ current_route_name = START /\ last_transit_route = NONE
    /\ path_score = 0 /\ real_transfers = 0 /\ pure_travel_time = 0
    /\ best_legs = NoLegs /\ best_score = Inf /\ best_stats = NoStats
    /\ best_path_idx = -1
    /\ LegIdle
    /\ response = NoResponse
    /\ events = {} /\ cand_scores = <<>> /\ cand_hops = <<>>
    /\ cand_transfers = <<>> /\ branches = <<>> /\ penalties = <<>>
    /\ ScanIdle

ScanFrame ==
    UNCHANGED <<request, all_stops, start_id, end_id, end_point, nearest_end,
                graph, loopvars, statevars, bestvars, legvars, response,
                histvars>>

\* Lines 104-118: one iteration of the scan.
ScanStop ==
    /\ pc = "scan" /\ stop_i < Len(all_stops)
    /\ LET st == NearestStep([closest |-> closest,
                              closest_distance |-> closest_distance],
                             all_stops[stop_i + 1], request.start_pos)
       IN  closest' = st.closest /\ closest_distance' = st.closest_distance
    /\ stop_i' = stop_i + 1
    /\ UNCHANGED <<pc, start_point, nearest_start>> /\ ScanFrame

\* Line 120, and lines 266-270 taking the result.
ScanReturn ==
    /\ pc = "scan" /\ stop_i = Len(all_stops)
    /\ nearest_start' = closest
    /\ start_point' = [id |-> "Start", pos |-> request.start_pos]
    /\ pc' = "legs"
    /\ UNCHANGED scanvars /\ ScanFrame

NearNext ==
    \/ ScanStop
    \/ ScanReturn
    \/ LegsOfNothing
    \/ LegsBegin
    \/ Pass1Hop
    \/ Pass1End
    \/ Pass2Iter
    \/ Pass2End

NearSpec == NearInit /\ [][NearNext]_vars

\* ------------------------------------------------- the ranking loop alone
\* BatchSpec is get_path from the candidate query on, for a request that
\* names both stops.
BatchInit ==
    /\ pc = "query"
    /\ request = [start |-> "A", end |-> "D", start_pos |-> BadPos,
                  end_pos |-> BadPos]
    /\ all_stops = Catalog
    /\ start_id = "A" /\ end_id = "D"
    /\ start_point = NoPoint /\ end_point = NoPoint
    /\ nearest_start = NoStop /\ nearest_end = NoStop
    /\ graph = [e \in AllEdges |-> Unknown]
    /\ candidates = <<>> /\ path_idx = 0 /\ hops = <<>> /\ hop_i = 0
    /\ current_route_name = START /\ last_transit_route = NONE
    /\ path_score = 0 /\ real_transfers = 0 /\ pure_travel_time = 0
    /\ processed_hops = <<>>
    /\ best_legs = NoLegs /\ best_score = Inf /\ best_stats = NoStats
    /\ best_path_idx = -1
    /\ LegIdle
    /\ response = NoResponse
    /\ events = {} /\ cand_scores = <<>> /\ cand_hops = <<>>
    /\ cand_transfers = <<>> /\ branches = <<>> /\ penalties = <<>>
    /\ ScanIdle

BatchNext ==
    \/ QueryCandidates
    \/ FetchHops
    \/ ScoreHop
    \/ ScoreHopRaises
    \/ RankCandidate
    \/ Stitch

BatchSpec == BatchInit /\ [][BatchNext]_vars

\* ---------------------------------------------------- the hop loop alone
\* HopSpec scores one candidate whose hops carry any option lists of
\* RichPool: route labels that are empty, missing, or spelled like the start
\* and walk markers, and weights that are missing or above 9999.
RichPool ==
    { << Opt("TRANSIT_ROUTE", R12, 300), Opt("TRANSIT_ROUTE", RU6, 100) >>,
      << Opt("TRANSIT_ROUTE", R12, 250) >>,
      << Opt("WALK", NONE, 50) >>,
      << Opt("TRANSIT_ROUTE", RU6, NoWeight), Opt("TRANSIT_ROUTE", R12, 10000) >>,
      << Opt("TRANSIT_ROUTE", RU6, NoWeight), Opt("TRANSIT_ROUTE", R12, 700) >>,
      << >>,
      << Opt("TRANSIT_ROUTE", EMPTY, 200) >>,
      << Opt("TRANSIT_ROUTE", EMPTY, 400), Opt("TRANSIT_ROUTE", RU6, 150) >>,
      << Opt("TRANSIT_ROUTE", START, 100) >>,
      << Opt("TRANSIT_ROUTE", WalkName, 100) >>,
      << Opt("TRANSIT_ROUTE", NONE, 100) >> }

\* The k-th stop of the candidate, 0-based; stops lie one transit hop apart.
HopPoint(k) == [id |-> PointIds[k + 1], pos |-> LegOrigin + k * TransitLen]

RichRows(lists) ==
    [k \in 1..Len(lists) |->
        [s |-> HopPoint(k - 1), e |-> HopPoint(k), options |-> lists[k]]]

\* The state of lines 337-350 for a batch of one candidate.
HopInit ==
    /\ pc = "hop"
    /\ \E lists \in SeqsUpTo(RichPool, MaxHops) :
          /\ hops = RichRows(lists)
          /\ candidates = << [k \in 1..(Len(lists) + 1) |-> PointIds[k]] >>
    /\ request = [start |-> PointIds[1], end |-> Last(candidates[1]),
                  start_pos |-> BadPos, end_pos |-> BadPos]
    /\ all_stops = Catalog
    /\ start_id = request.start /\ end_id = request.end
    /\ start_point = NoPoint /\ end_point = NoPoint
    /\ nearest_start = NoStop /\ nearest_end = NoStop
    /\ graph = [e \in AllEdges |-> Unknown]
    /\ path_idx = 0 /\ hop_i = 0
    /\ current_route_name = START /\ last_transit_route = FreshLastTransitRoute
    /\ path_score = 0 /\ real_transfers = 0 /\ pure_travel_time = 0
    /\ processed_hops = <<>>
    /\ best_legs = NoLegs /\ best_score = Inf /\ best_stats = NoStats
    /\ best_path_idx = -1
    /\ LegIdle
    /\ response = NoResponse
    /\ events = {} /\ cand_scores = <<>> /\ cand_hops = <<>>
    /\ cand_transfers = <<>> /\ branches = <<>> /\ penalties = <<>>
    /\ ScanIdle

HopNext ==
    \/ ScoreHop
    \/ ScoreHopRaises
    \/ RankCandidate
    \/ Stitch

HopSpec == HopInit /\ [][HopNext]_vars

\* ================================================================== claims

\* The cost get_path charges for a processed hop's own weight.
OwnCost(ph) == IF ph.mode = "WALK" THEN ph.weight * WalkNum ELSE ph.weight * WalkDen

\* C1: in every step of the hop loop taken while the current route label is
\* an active line (not the start marker, not the walk marker) and some option
\* of the hop carries that label, the chosen option carries that label, the
\* score grows by the option's own weight only, and the transfer count stays.
C1_StickinessDominates ==
    [][ ( /\ pc = "hop" /\ hop_i < Len(hops) /\ hop_i' = hop_i + 1
          /\ current_route_name \notin {START, WalkName}
          /\ \E k \in 1..Len(hops[hop_i + 1].options) :
                hops[hop_i + 1].options[k].route = current_route_name )
        => ( /\ Last(processed_hops').route = current_route_name
             /\ path_score' = path_score + OwnCost(Last(processed_hops'))
             /\ real_transfers' = real_transfers ) ]_vars

\* C1 witness: a ride on line 12 was continued although another line was
\* cheaper on that hop.
C1_Witness ==
    /\ pc = "hop" /\ hop_i >= 2
    /\ processed_hops[hop_i - 1].mode # "WALK"
    /\ processed_hops[hop_i].mode # "WALK"
    /\ processed_hops[hop_i].route = processed_hops[hop_i - 1].route
    /\ \E k \in 1..Len(hops[hop_i].options) :
          /\ hops[hop_i].options[k].route # processed_hops[hop_i].route
          /\ hops[hop_i].options[k].weight # NoWeight
          /\ hops[hop_i].options[k].weight < processed_hops[hop_i].weight

\* C2: once the ranking loop has evaluated all candidates, the retained score
\* is the score of candidate best_path_idx, no candidate has a lower score,
\* every candidate before it has a strictly higher score, and the retained
\* legs are built from that candidate's processed hops.
C2_RankerKeepsFirstMinimum ==
    pc = "stitch" =>
        /\ Len(cand_scores) = Len(candidates)
        /\ best_path_idx \in 0..(Len(candidates) - 1)
        /\ best_score = cand_scores[best_path_idx + 1]
        /\ \A j \in 1..Len(cand_scores) : best_score <= cand_scores[j]
        /\ \A j \in 1..best_path_idx : best_score < cand_scores[j]
        /\ best_legs = build_legs_from_hops(cand_hops[best_path_idx + 1])

\* C2 witness: scores [950, 700, 1200]; the 700 candidate (index 1) is kept.
C2_Witness ==
    /\ pc = "stitch"
    /\ cand_scores = <<950 * WalkDen, 700 * WalkDen, 1200 * WalkDen>>
    /\ best_path_idx = 1
    /\ best_score = 700 * WalkDen

\* A candidate of the batch that has been fetched and has options on every hop.
ValidFetched(c) == \A e \in EdgesOf(c) : graph[e] # Unknown /\ graph[e] # <<>>

\* C3 (as claimed): when the candidate being scored has a hop without options
\* and the batch holds another candidate with options on every hop, the
\* request does not fail.
C3_DegenerateCandidateSkipped ==
    ( /\ \E k \in 1..Len(hops) : hops[k].options = <<>>
      /\ \E j \in 1..Len(candidates) : ValidFetched(candidates[j]) )
    => response.status # 500

\* The selection policy as the claim words it: the state is [cur, last], the
\* result of a hop is [opt, cost, transfers].
PolicyMatches(options, label) == { k \in 1..Len(options) : options[k].route = label }

PolicyMin(S) == CHOOSE k \in S : \A j \in S : k <= j

PolicyKey(o) == IF o.weight = NoWeight THEN 9999 ELSE o.weight

PolicyCheapest(options) ==
    PolicyMin({ k \in 1..Len(options) :
                  \A j \in 1..Len(options) :
                      PolicyKey(options[k]) <= PolicyKey(options[j]) })

PolicyWeight(o) == IF o.weight = NoWeight THEN 0 ELSE o.weight

PolicyOwn(o) == IF o.type = "WALK" THEN PolicyWeight(o) ELSE 5 * PolicyWeight(o)

PolicyHop(options, cur, last) ==
    IF cur # START /\ cur # WalkName /\ PolicyMatches(options, cur) # {}
    THEN LET o == options[PolicyMin(PolicyMatches(options, cur))]
         IN  [opt |-> o, cost |-> PolicyOwn(o), transfers |-> 0]
    ELSE IF cur = WalkName /\ last # NONE /\ PolicyMatches(options, last) # {}
    THEN LET o == options[PolicyMin(PolicyMatches(options, last))]
         IN  [opt |-> o, cost |-> PolicyOwn(o), transfers |-> 0]
    ELSE LET o == options[PolicyCheapest(options)]
             transfer == /\ o.type # "WALK" /\ cur # START
                         /\ last # NONE /\ o.route # last
         IN  [opt |-> o,
              cost |-> PolicyOwn(o) + (IF transfer THEN 5 * 600 ELSE 0),
              transfers |-> IF transfer THEN 1 ELSE 0]

\* The policy folded over the first n hops: [cur, last, score, transfers, chosen].
RECURSIVE PolicyFold(_, _)
PolicyFold(rows, n) ==
    IF n = 0
    THEN [cur |-> START, last |-> NONE, score |-> 0, transfers |-> 0,
          chosen |-> <<>>]
    ELSE LET b == PolicyFold(rows, n - 1)
             h == PolicyHop(rows[n].options, b.cur, b.last)
         IN  [cur |-> IF h.opt.type = "WALK" THEN WalkName ELSE h.opt.route,
              last |-> IF h.opt.type = "WALK" THEN b.last ELSE h.opt.route,
              score |-> b.score + h.cost,
              transfers |-> b.transfers + h.transfers,
              chosen |-> Append(b.chosen,
                                [s |-> rows[n].s, e |-> rows[n].e,
                                 mode |-> h.opt.type, route |-> h.opt.route,
                                 weight |-> PolicyWeight(h.opt)])]

\* C4: at every point of the hop loop the score, the transfer count and the
\* processed-hop list are those the selection policy yields for the hops
\* scored so far, a function of the candidate's hops alone.
C4_ScoreIsSumOfContributions ==
    (pc = "hop" /\ hop_i > 0) =>
        LET p == PolicyFold(hops, hop_i)
        IN  /\ path_score = p.score
            /\ real_transfers = p.transfers
            /\ processed_hops = p.chosen

\* C4 witness: a fully scored three-hop candidate with a walk hop and a transfer.
C4_Witness ==
    /\ pc = "hop" /\ hop_i = 3 /\ Len(hops) = 3
    /\ real_transfers >= 1
    /\ \E k \in 1..3 : processed_hops[k].mode = "WALK"

\* C10: when the candidate query answers with an empty list, get_path ends at
\* once with 404 'No path found'; no hop was scored, no leg built, no walk
\* stitched.
C10_EmptyBatchIsNoPath ==
    [][ (pc = "query" /\ candidates' = <<>>)
        => ( /\ pc' = "done"
             /\ response'.status = 404
             /\ response'.error = "No path found"
             /\ events' = {}
             /\ best_legs' = NoLegs ) ]_vars

\* C10 witness: the request ended with 'No path found'.
C10_Witness ==
    /\ pc = "done" /\ response.error = "No path found"
    /\ start_id = "A" /\ end_id = "D" /\ candidates = <<>>

\* ------------------------------------------------------ claims on the legs
SameLine(a, b) == a.mode = b.mode /\ a.route = b.route

\* Pass 2 has ended and its result has been returned.
AfterPass2 == pc = "stitch_start" /\ processed_hops # <<>>

\* A walk leg of raw_legs that bridges two legs of the same line, d metres long.
BridgingWalk(j) ==
    /\ j \in 2..(Len(raw_legs) - 1)
    /\ raw_legs[j].mode = "WALK"
    /\ raw_legs[j - 1].mode # "WALK"
    /\ SameLine(raw_legs[j - 1], raw_legs[j + 1])
    /\ ~GeodesicRaises(raw_legs[j].points[1], Last(raw_legs[j].points))

WalkLength(j) == GeodesicMeters(raw_legs[j].points[1], Last(raw_legs[j].points))

KeptAsLeg(j) == \E k \in 1..Len(best_legs) : best_legs[k] = raw_legs[j]

\* C5 (as claimed): after pass 2, at any position of the pass-1 leg list, a
\* walk leg under 300 m between two legs of the same mode and route is not a
\* leg of the output, and one of exactly 301 m is.
C5_BridgingWalkAlwaysAbsorbed ==
    AfterPass2 =>
        \A j \in 1..Len(raw_legs) :
            BridgingWalk(j) =>
                /\ WalkLength(j) < 300 => ~KeptAsLeg(j)
                /\ WalkLength(j) = 301 => KeptAsLeg(j)

RECURSIVE SumPoints(_)
SumPoints(legs) ==
    IF legs = <<>> THEN 0 ELSE Len(Head(legs).points) + SumPoints(Tail(legs))

\* The waypoints of a leg list, every leg after the first without its first point.
RECURSIVE Joined(_)
Joined(legs) ==
    IF legs = <<>> THEN <<>>
    ELSE IF Len(legs) = 1 THEN legs[1].points
    ELSE Joined(SubSeq(legs, 1, Len(legs) - 1)) \o Tail1(Last(legs).points)

StopsOf(hop_list) ==
    <<hop_list[1].s>> \o [k \in 1..Len(hop_list) |-> hop_list[k].e]

\* Pass 1 has ended and pass 2 has not begun.
AfterPass1 == pc = "pass2" /\ leg_i = 0 /\ smoothed_legs = <<>>

\* C6 (as claimed): after pass 1 the waypoint counts of the legs sum to
\* (hops + 1) - merges.
C6_WaypointSumIsHopsPlusOneMinusMerges ==
    AfterPass1 => SumPoints(raw_legs) = (Len(processed_hops) + 1) - merges

\* C6 (amended): after pass 1 there are hops - merges legs, their waypoint
\* counts sum to (hops + 1) - merges + (hops - 1), that is 2 * hops - merges,
\* and the legs' waypoints, each leg after the first without its repeated
\* first point, are the origin of hop 1 followed by every hop's destination.
C6_WaypointSumCountsSharedBoundaries ==
    AfterPass1 =>
        /\ Len(raw_legs) = Len(processed_hops) - merges
        /\ SumPoints(raw_legs)
             = (Len(processed_hops) + 1) - merges + (Len(processed_hops) - 1)
        /\ Joined(raw_legs) = StopsOf(processed_hops)

\* C6 witness: pass 1 merged at least once and produced at least two legs.
C6_Witness ==
    AfterPass1 /\ merges >= 1 /\ Len(raw_legs) >= 2 /\ Len(processed_hops) >= 4

\* C7: in the finished itinerary no two adjacent legs have the same mode and
\* the same route.
C7_NoAdjacentSameLine ==
    pc = "done" =>
        \A k \in 1..(Len(best_legs) - 1) : ~SameLine(best_legs[k], best_legs[k + 1])

\* C7 witness: an itinerary of three or more legs after a pass-1 merge, a
\* pass-2 absorption and both walk stitches.
C7_Witness ==
    /\ pc = "done" /\ Len(best_legs) >= 3
    /\ merges >= 1 /\ Len(smoothed_legs) < Len(raw_legs)
    /\ start_point # NoPoint /\ nearest_start.distance = 5
    /\ end_point # NoPoint /\ nearest_end.distance = 80

\* The walk handed to add_walk_leg_helper in a stitching step, and its length.
StartLength == Abs(start_point'.pos - nearest_start'.pos)

EndLength == Abs(nearest_end'.pos - end_point'.pos)

\* C8: a stitching call whose walk is under 5 m returns the leg list
\* unchanged; a walk of exactly 5 m is added: either as a new first leg, or
\* spliced into the walk leg already there.
C8_ShortWalkNeverStitched ==
    [][ /\ (pc = "stitch_start" /\ start_point' # NoPoint)
           => /\ StartLength < 5 => best_legs' = best_legs
              /\ StartLength = 5
                   => /\ best_legs' # best_legs
                      /\ best_legs'[1].mode = "WALK"
                      /\ best_legs'[1].points[1] = start_point'
        /\ (pc = "stitch_end" /\ end_point' # NoPoint)
           => /\ EndLength < 5 => best_legs' = best_legs
              /\ EndLength >= 5
                   => /\ best_legs' # best_legs
                      /\ Last(best_legs').mode = "WALK"
                      /\ Last(Last(best_legs').points) = end_point' ]_vars

\* C8 witness: a 4 m start walk and a 3 m end walk were offered to an
\* itinerary that begins and ends with a walk leg, and it was left as it was.
C8_Witness ==
    /\ pc = "done"
    /\ start_point # NoPoint /\ nearest_start.distance = 4
    /\ end_point # NoPoint /\ nearest_end.distance = 3
    /\ Len(smoothed_legs) >= 2
    /\ smoothed_legs[1].mode = "WALK" /\ Last(smoothed_legs).mode = "WALK"
    /\ best_legs = smoothed_legs

Scenario == HopsOf(ScenarioShapes)

\* C9 (as claimed): the scenario A -(Bus "12")-> B -(Walk)-> C -(Bus "12")-> D
\* with 40 m between B and C yields one leg of mode Bus, route "12", A to D.
C9_ScenarioYieldsOneBusLeg ==
    (AfterPass2 /\ processed_hops = Scenario) =>
        /\ Len(best_legs) = 1
        /\ best_legs[1].mode = "Bus"
        /\ best_legs[1].route = R12
        /\ best_legs[1].points = StopsOf(Scenario)

\* C9 (amended): the scenario yields one leg of route "12" from A to D whose
\* mode is Tram, the display category of a numeric route label below 40.
C9_ScenarioYieldsOneTramLeg ==
    (AfterPass2 /\ processed_hops = Scenario) =>
        /\ Len(best_legs) = 1
        /\ best_legs[1].mode = "Tram"
        /\ best_legs[1].route = R12
        /\ best_legs[1].points = StopsOf(Scenario)

\* C9 witness: build_legs_from_hops has returned for the scenario.
C9_Witness ==
    /\ AfterPass2 /\ processed_hops = Scenario
    /\ Len(raw_legs) = 3 /\ WalkLength(2) = 40

\* ------------------------------------------------- claims on the stop scan
\* Indices of the catalog stops whose distance to the query can be computed.
Computable == { k \in 1..Len(all_stops) : all_stops[k].pos # BadPos }

DistanceTo(k) == Abs(request.start_pos - all_stops[k].pos)

\* find_nearest_stop has returned and its result has been taken.
ScanReturned == pc = "legs"

\* The result is catalog stop k with its distance.
ResultIsStop(k) ==
    /\ nearest_start.stop_id = all_stops[k].stop_id
    /\ nearest_start.pos = all_stops[k].pos
    /\ nearest_start.distance = DistanceTo(k)

\* C11: when find_nearest_stop has returned, its result is nothing if the
\* catalog is empty or no stop's distance can be computed; otherwise it is a
\* stop whose distance is the minimum over the stops whose distance can be
\* computed and every such stop before it in the catalog is strictly
\* farther; no step of the scan changes the catalog.
C11_NearestIsFirstMinimum ==
    /\ [](ScanReturned =>
            IF Computable = {} THEN nearest_start = NoStop
            ELSE \E k \in Computable :
                    /\ ResultIsStop(k)
                    /\ \A j \in Computable : DistanceTo(k) <= DistanceTo(j)
                    /\ \A j \in Computable : j < k => DistanceTo(j) > DistanceTo(k))
    /\ [][all_stops' = all_stops]_vars

\* C11 witness: a catalog that begins with a stop without coordinates and
\* goes on with two different stops at the same minimum distance; the first
\* of the two was returned.
C11_Witness ==
    /\ ScanReturned /\ Len(all_stops) = 3
    /\ all_stops[1].pos = BadPos
    /\ Computable = {2, 3}
    /\ DistanceTo(2) = DistanceTo(3)
    /\ all_stops[2].stop_id # all_stops[3].stop_id
    /\ ResultIsStop(2)

\* The pass-2 pattern holds at 0-based index i and the distance of its walk
\* cannot be computed.
FailingBridge(i) ==
    /\ BridgePattern(raw_legs, i)
    /\ GeodesicRaises(raw_legs[i + 2].points[1], Last(raw_legs[i + 2].points))

\* C18: a scan step on a stop whose distance cannot be computed leaves the
\* closest stop as it was and the scan goes on with the next stop, so a stop
\* whose distance can be computed is still returned; a pass-2 step on a
\* transit-walk-transit pattern whose walk distance cannot be computed emits
\* the first leg alone and moves one leg on, and the walk is a leg of the
\* returned list.
C18_FailedDistanceIsSkipped ==
    /\ [][ /\ ( /\ pc = "scan" /\ stop_i < Len(all_stops)
                /\ all_stops[stop_i + 1].pos = BadPos )
              => ( /\ closest' = closest
                   /\ closest_distance' = closest_distance
                   /\ stop_i' = stop_i + 1
                   /\ pc' = "scan" )
          /\ ( /\ pc = "pass2" /\ leg_i < Len(raw_legs)
                /\ FailingBridge(leg_i) )
              => ( /\ leg_i' = leg_i + 1
                   /\ smoothed_legs' = Append(smoothed_legs, raw_legs[leg_i + 1])
                   /\ pc' = "pass2" ) ]_vars
    /\ [](ScanReturned =>
            (Computable # {} => nearest_start # NoStop /\ nearest_start.pos # BadPos))
    /\ [](AfterPass2 =>
            \A i \in 0..(Len(raw_legs) - 3) : FailingBridge(i) => KeptAsLeg(i + 2))

\* C18 witness: the scan passed a stop without coordinates and returned a
\* later stop, and pass 2 returned three legs for two rides on one line
\* around a walk whose distance cannot be computed.
C18_Witness ==
    /\ AfterPass2
    /\ Len(all_stops) >= 2 /\ all_stops[1].pos = BadPos
    /\ nearest_start # NoStop
    /\ Len(raw_legs) = 3 /\ FailingBridge(0)
    /\ best_legs = raw_legs

\* ------------------------------------------- claims on the scoring of hops
\* The hop rows of candidate j of the batch, as the details query answers.
RowsOf(j) == HopRows(candidates[j], graph)

\* What the selection policy yields for candidate j scored alone from the
\* state (start marker, unset, 0).
Alone(j) == PolicyFold(RowsOf(j), Len(RowsOf(j)))

\* C12: whenever a candidate has been evaluated, the score, the transfer
\* count and the processed hops recorded for every candidate evaluated so far
\* are those of that candidate scored alone from (start marker, unset, 0),
\* and two positions of the batch that hold the same candidate have the same
\* score, transfer count and processed hops.
C12_CandidateScoredAsIfAlone ==
    pc \in {"fetch", "stitch"} =>
        /\ \A j \in 1..Len(cand_scores) :
              /\ cand_scores[j] = Alone(j).score
              /\ cand_transfers[j] = Alone(j).transfers
              /\ cand_hops[j] = Alone(j).chosen
        /\ \A i, j \in 1..Len(cand_scores) :
              candidates[i] = candidates[j] =>
                  /\ cand_scores[i] = cand_scores[j]
                  /\ cand_transfers[i] = cand_transfers[j]
                  /\ cand_hops[i] = cand_hops[j]

\* C12 witness: a three-hop candidate with a transfer was evaluated first and
\* third, a different candidate ending on another line in between.
C12_Witness ==
    /\ pc = "stitch" /\ Len(cand_scores) = 3
    /\ candidates[1] = candidates[3] /\ candidates[2] # candidates[1]
    /\ Len(cand_hops[1]) = 3 /\ cand_transfers[3] >= 1
    /\ Last(cand_hops[2]).route # Last(cand_hops[1]).route
    /\ cand_scores[1] = cand_scores[3]

\* A step of the hop loop, the hop it has processed and the branch it took.
HopStep == pc = "hop" /\ hop_i < Len(hops) /\ hop_i' = hop_i + 1

Done == Last(processed_hops')

OptionsNow == hops[hop_i + 1].options

\* The conditions the claim names for a transfer, on the state before the hop.
TransferCase ==
    /\ Last(branches') = "fallback"
    /\ Done.mode # "WALK"
    /\ current_route_name # START
    /\ last_transit_route # NONE
    /\ Done.route # last_transit_route

\* C13: a step of the hop loop adds the transfer penalty of 600 to the score
\* and one to the transfer count exactly when it took the cheapest-fallback
\* branch, chose a transit option, the current route label was not the start
\* marker, the last transit route was set (not None) and the chosen route
\* differs from it; otherwise the step adds the option's own cost and the
\* boarding penalty of 0 at most, and the transfer count stays.
C13_TransferIffFallbackToNewLine ==
    [][ HopStep =>
          /\ TransferCase
                => /\ real_transfers' = real_transfers + 1
                   /\ path_score' = path_score + OwnCost(Done) + 600 * WalkDen
          /\ ~TransferCase
                => /\ real_transfers' = real_transfers
                   /\ path_score' = path_score + OwnCost(Done) ]_vars

\* C13 witness: three hops resolved by the fallback branch: a boarding, a
\* walk, and a ride on another line, which was counted as the one transfer.
C13_Witness ==
    /\ pc = "hop" /\ hop_i = 3
    /\ branches = <<"fallback", "fallback", "fallback">>
    /\ processed_hops[1].mode # "WALK"
    /\ processed_hops[2].mode = "WALK"
    /\ processed_hops[3].mode # "WALK"
    /\ processed_hops[3].route # processed_hops[1].route
    /\ real_transfers = 1

\* C14 (as claimed): a step of the hop loop taken while the current route
\* label is the walk marker, the last transit route is set (not None) and
\* some option of the hop carries the last transit route chooses an option of
\* that route, adds the option's own cost only and leaves the transfer count.
C14_ReboardsLastLineAfterWalk ==
    [][ ( /\ HopStep
          /\ current_route_name = WalkName
          /\ last_transit_route # NONE
          /\ \E k \in 1..Len(OptionsNow) :
                OptionsNow[k].route = last_transit_route )
        => ( /\ Done.route = last_transit_route
             /\ path_score' = path_score + OwnCost(Done)
             /\ real_transfers' = real_transfers ) ]_vars

\* C15: after a step of the hop loop, if the processed hop is transit the
\* current route label and the last transit route both are its route; if it
\* is a walk the current route label is the walk marker and the last transit
\* route is what it was before the step.
C15_StateFollowsChosenOption ==
    [][ HopStep =>
          IF Done.mode # "WALK"
          THEN /\ current_route_name' = Done.route
               /\ last_transit_route' = Done.route
          ELSE /\ current_route_name' = WalkName
               /\ last_transit_route' = last_transit_route ]_vars

\* C15 witness: a walk hop after a ride: the traveler is walking and the
\* line of the ride is still remembered.
C15_Witness ==
    /\ pc = "hop" /\ hop_i >= 2
    /\ processed_hops[hop_i].mode = "WALK"
    /\ processed_hops[hop_i - 1].mode # "WALK"
    /\ current_route_name = WalkName
    /\ last_transit_route = processed_hops[hop_i - 1].route
    /\ last_transit_route = R12

\* Option k of the hop is the one the step has chosen.
ChosenAt(k) ==
    /\ OptionsNow[k].type = Done.mode
    /\ OptionsNow[k].route = Done.route
    /\ PolicyWeight(OptionsNow[k]) = Done.weight

\* C16 (as claimed): the option chosen by a step that took the fallback
\* branch has the minimum weight of the hop, a missing weight counting as
\* 9999, and its weight is missing only if no option of the hop has a known
\* weight.
C16_MissingWeightNeverPreferred ==
    [][ (HopStep /\ Last(branches') = "fallback") =>
          \A k \in 1..Len(OptionsNow) :
              ChosenAt(k) =>
                  /\ \A j \in 1..Len(OptionsNow) :
                        PolicyKey(OptionsNow[k]) <= PolicyKey(OptionsNow[j])
                  /\ OptionsNow[k].weight = NoWeight
                        => \A j \in 1..Len(OptionsNow) :
                              OptionsNow[j].weight = NoWeight ]_vars

\* The transit hops of a processed-hop list, in order.
RECURSIVE TransitOf(_)
TransitOf(phs) ==
    IF phs = <<>> THEN <<>>
    ELSE IF Head(phs).mode # "WALK" THEN <<Head(phs)>> \o TransitOf(Tail(phs))
    ELSE TransitOf(Tail(phs))

DifferingPairs(t) ==
    Cardinality({ k \in 1..(Len(t) - 1) : t[k].route # t[k + 1].route })

\* Every transit hop has a label that is not empty, not missing and not
\* spelled like the start or walk marker.
ProperLabels(phs) ==
    \A k \in 1..Len(phs) :
        phs[k].mode # "WALK" => phs[k].route \notin {EMPTY, NONE, START, WalkName}

\* C20: when all hops of a candidate have been scored and its transit hops
\* have proper labels, the transfer count is the number of adjacent pairs of
\* its transit hops, walk hops left out, whose routes differ.
C20_TransfersCountLineChanges ==
    (pc = "hop" /\ hop_i = Len(hops) /\ ProperLabels(processed_hops))
        => real_transfers = DifferingPairs(TransitOf(processed_hops))

\* C20 witness: ride, walk, ride on the same line although the last hop
\* offered a cheaper line: no transfer was counted.
C20_Witness ==
    /\ pc = "hop" /\ hop_i = 3 /\ Len(hops) = 3
    /\ processed_hops[1].mode # "WALK"
    /\ processed_hops[2].mode = "WALK"
    /\ processed_hops[3].mode # "WALK"
    /\ processed_hops[3].route = processed_hops[1].route
    /\ processed_hops[1].route = R12
    /\ \E k \in 1..Len(hops[3].options) :
          /\ hops[3].options[k].route # R12
          /\ hops[3].options[k].weight # NoWeight
          /\ hops[3].options[k].weight < processed_hops[3].weight
    /\ real_transfers = 0

\* ------------------------------------------- claims on the stitched legs
\* The walk leg add_walk_leg_helper makes of its points.
WalkLegOf(points) == [mode |-> "WALK", route |-> WalkName, points |-> points]

\* C17: a stitching call whose walk is 5 m or longer either finds a Walk leg
\* at the targeted end, and then the itinerary keeps its length, that leg
\* gets the off-network point as its new outer waypoint and every other leg
\* is as before; or it finds none, and then a two-point Walk leg from the
\* off-network point to its stop (at the end: from the stop to the point) is
\* the new first (last) leg and the legs before follow (precede) it as they
\* were.
C17_WalkIsSplicedOrInserted ==
    [][ /\ (pc = "stitch_start" /\ start_point' # NoPoint /\ StartLength >= 5)
           => IF best_legs # <<>> /\ best_legs[1].mode = "WALK"
              THEN /\ Len(best_legs') = Len(best_legs)
                   /\ best_legs'[1] =
                        [best_legs[1] EXCEPT !.points = <<start_point'>> \o @]
                   /\ \A k \in 2..Len(best_legs) : best_legs'[k] = best_legs[k]
              ELSE /\ Len(best_legs') = Len(best_legs) + 1
                   /\ best_legs'[1] =
                        WalkLegOf(<< start_point',
                                     [id |-> nearest_start'.stop_id,
                                      pos |-> nearest_start'.pos] >>)
                   /\ \A k \in 1..Len(best_legs) : best_legs'[k + 1] = best_legs[k]
        /\ (pc = "stitch_end" /\ end_point' # NoPoint /\ EndLength >= 5)
           => IF best_legs # <<>> /\ Last(best_legs).mode = "WALK"
              THEN /\ Len(best_legs') = Len(best_legs)
                   /\ Last(best_legs') =
                        [Last(best_legs) EXCEPT !.points = @ \o <<end_point'>>]
                   /\ \A k \in 1..(Len(best_legs) - 1) :
                         best_legs'[k] = best_legs[k]
              ELSE /\ Len(best_legs') = Len(best_legs) + 1
                   /\ Last(best_legs') =
                        WalkLegOf(<< [id |-> nearest_end'.stop_id,
                                      pos |-> nearest_end'.pos],
                                     end_point' >>)
                   /\ \A k \in 1..Len(best_legs) : best_legs'[k] = best_legs[k]
      ]_vars

\* C17 witness: an itinerary of three or more legs that begins and ends with
\* a walk leg got a 5 m start walk and an 80 m end walk spliced into them.
C17_Witness ==
    /\ pc = "done"
    /\ start_point # NoPoint /\ nearest_start.distance = 5
    /\ end_point # NoPoint /\ nearest_end.distance = 80
    /\ Len(smoothed_legs) >= 3
    /\ smoothed_legs[1].mode = "WALK" /\ Last(smoothed_legs).mode = "WALK"
    /\ Len(best_legs) = Len(smoothed_legs)
    /\ best_legs[1].points[1] = start_point
    /\ Last(Last(best_legs).points) = end_point

\* C19: when build_legs_from_hops has returned for a non-empty hop list,
\* every leg has two waypoints or more, every leg after the first begins
\* with the last waypoint of the leg before it, and the legs' waypoints, each
\* leg after the first without its first point, are the origin of hop 1
\* followed by the destination of every hop in input order.
C19_LegsContiguousInInputOrder ==
    AfterPass2 =>
        /\ \A k \in 1..Len(best_legs) : Len(best_legs[k].points) >= 2
        /\ \A k \in 2..Len(best_legs) :
              best_legs[k].points[1] = Last(best_legs[k - 1].points)
        /\ Joined(best_legs) = StopsOf(processed_hops)

\* C19 witness: a list of five hops returned as two legs or more after a
\* merge in pass 1 and an absorbed walk in pass 2.
C19_Witness ==
    /\ AfterPass2 /\ Len(processed_hops) = 5
    /\ merges >= 1 /\ Len(smoothed_legs) < Len(raw_legs)
    /\ Len(best_legs) >= 2

\* ------------------------------------------ claims on the boarding penalty
\* Positions of the transit hops among the hops scored so far.
TransitAt == { k \in 1..Len(processed_hops) : processed_hops[k].mode # "WALK" }

\* Positions of the hops that were charged penalty kind p.
ChargedAt(p) == { k \in 1..Len(penalties) : penalties[k] = p }

RECURSIVE SumOwnCost(_)
SumOwnCost(phs) ==
    IF phs = <<>> THEN 0 ELSE OwnCost(Head(phs)) + SumOwnCost(Tail(phs))

\* C21: while a candidate is being scored and the transit hops scored so far
\* have proper labels, the boarding penalty has been charged to the first
\* transit hop and to no other hop (to no hop when all hops were walks),
\* every later transit hop was charged nothing or the transfer penalty, and
\* the score is the hops' own costs plus 0 for the boarding and 600 for
\* every transfer.
C21_BoardingChargedOnFirstTransitOnly ==
    (pc = "hop" /\ ProperLabels(processed_hops)) =>
        /\ Len(penalties) = Len(processed_hops)
        /\ IF TransitAt = {} THEN ChargedAt("boarding") = {}
           ELSE LET first == CHOOSE k \in TransitAt : \A j \in TransitAt : k <= j
                IN  /\ ChargedAt("boarding") = {first}
                    /\ \A k \in TransitAt :
                          k > first => penalties[k] \in {"none", "transfer"}
        /\ path_score = SumOwnCost(processed_hops)
                          + Cardinality(ChargedAt("boarding")) * 0 * WalkDen
                          + Cardinality(ChargedAt("transfer")) * 600 * WalkDen

\* C21 witness: a walk, the first ride, and a ride on another line: the
\* boarding penalty went to the second hop, the transfer penalty to the third.
C21_Witness ==
    /\ pc = "hop" /\ hop_i = 3 /\ ProperLabels(processed_hops)
    /\ processed_hops[1].mode = "WALK"
    /\ TransitAt = {2, 3}
    /\ processed_hops[2].route # processed_hops[3].route
    /\ penalties = <<"none", "boarding", "transfer">>

====
